---- MODULE Spec2Model ----
(***************************************************************************)
(* A model of api/index.py of mba-copilot: the chunker (chunk_text), the   *)
(* ingestion pipeline (upload, store_chunks), the vector-store adapter     *)
(* (delete_document, list_documents) and the retrieval pipeline (chat,     *)
(* generate_answer).                                                       *)
(*                                                                         *)
(* Texts are sequences of one-character strings.  Offsets are 0-based as   *)
(* in Python, so character i of a text s is s[i + 1].                      *)
(***************************************************************************)
EXTENDS Integers, Sequences, FiniteSets, TLC

VARIABLES
    \* chunk_text
    chunkSize,   \* config.CHUNK_SIZE
    overlap,     \* config.CHUNK_OVERLAP
    raw,         \* the argument of chunk_text
    text,        \* the local `text` after normalisation
    start,       \* the local `start`
    chunks,      \* the local `chunks`
    windows,     \* history: the <<start, end>> of every iteration, in order
    src,         \* history: src[i] is the index in windows chunks[i] was cut from
    cpc,         \* position in chunk_text: "call", "loop" or "done"
    \* the vector store and the requests against it
    store,       \* the index: chunk id -> metadata
    upl,         \* one record per upload request
    now,         \* int(time.time())
    lastOp,      \* the step taken last, when it was a DELETE or a listing that
                 \* succeeded, with its response
    \* chat
    similar,     \* what query_similar returned
    history,     \* request.history
    relevant,    \* the local `relevant`
    messages,    \* the messages generate_answer hands to the chat model
    sources,     \* the sources of the response
    kpc          \* position in chat: "call", "done" or "failed"

chunkVars == <<chunkSize, overlap, raw, text, start, chunks, windows, src, cpc>>

storeVars == <<store, upl, now, lastOp>>

chatVars == <<similar, history, relevant, messages, sources, kpc>>

vars == <<chunkSize, overlap, raw, text, start, chunks, windows, src, cpc,
          store, upl, now, lastOp,
          similar, history, relevant, messages, sources, kpc>>

----------------------------------------------------------------------------
(* Bounds of the model *)

\* longest raw text given to chunk_text
MaxLen == 7
\* smallest and largest chunk size tried when the two chunking parameters
\* are varied
MinChunk == 4
MaxChunk == 5
\* cap on the iterations of the chunking loop (the loop of a run that makes
\* no progress appends to chunks for ever)
MaxIter == 8
\* the upload requests of a run
NumUploads == 2
\* the seconds that pass in a run
MaxTime == 1
\* the most turns of history a chat request carries
MaxHist == 8

(* Program constants *)

CHUNK_SIZE == 1000
CHUNK_OVERLAP == 200
TOP_K == 5
\* 0.7: scores are counted in tenths
MIN_SCORE == 7
\* line 278: history[-6:]
HISTORY_TURNS == 6
\* line 332: the characters of a chunk's text a source shows
PREVIEW_CHARS == 200

----------------------------------------------------------------------------
(* Python's str operations, on sequences of characters *)

Min(a, b) == IF a < b THEN a ELSE b

Max(a, b) == IF a > b THEN a ELSE b

SetMax(S) == CHOOSE x \in S : \A y \in S : y <= x

\* the characters texts are built from: a letter, the two characters of a
\* sentence break, and the two line-break characters
Chars == {"a", ".", " ", "\n", "\r"}

\* str.strip() removes these from both ends
IsSpace(c) == c \in {" ", "\n", "\r"}

\* text.replace('\r\n', '\n'): left to right, non-overlapping
RECURSIVE ReplaceCRLF(_)
ReplaceCRLF(s) ==
    IF s = <<>> THEN <<>>
    ELSE IF Len(s) >= 2 /\ s[1] = "\r" /\ s[2] = "\n"
         THEN <<"\n">> \o ReplaceCRLF(SubSeq(s, 3, Len(s)))
         ELSE <<s[1]>> \o ReplaceCRLF(Tail(s))

\* s.strip()
Strip(s) ==
    LET keep == {i \in 1..Len(s) : ~IsSpace(s[i])}
    IN  IF keep = {} THEN <<>>
        ELSE SubSeq(s, CHOOSE i \in keep : \A j \in keep : i <= j, SetMax(keep))

\* s[i:j] for 0 <= i
Slice(s, i, j) == SubSeq(s, i + 1, Min(j, Len(s)))

\* s.rfind(sub, lo, hi) for 0 <= lo: the highest offset i with lo <= i and
\* i + len(sub) <= min(hi, len(s)) at which sub occurs, or -1
RFind(s, sub, lo, hi) ==
    LET top == Min(hi, Len(s)) - Len(sub)
        hits == {i \in lo..top : SubSeq(s, i + 1, i + Len(sub)) = sub}
    IN  IF hits = {} THEN -1 ELSE SetMax(hits)

ParaBreak == <<"\n", "\n">>

SentBreak == <<".", " ">>

----------------------------------------------------------------------------
(* chunk_text *)

\* lines 127-137: the right edge of the window that starts at st
WindowEnd(t, st, cs) ==
    LET end == st + cs
        para_break == RFind(t, ParaBreak, st + cs \div 2, end)
        sent_break == RFind(t, SentBreak, st + cs \div 2, end)
    IN  IF end < Len(t)
        THEN IF para_break > 0 THEN para_break
             ELSE IF sent_break > 0 THEN sent_break + 1
             ELSE end
        ELSE end

\* NextStart with the sign of the overlap slipped
NextStartPastEnd(end, ov) == end + ov

\* lines 143-145: where the next window starts
NextStart(end, ov) == IF end - ov < 0 THEN 0 ELSE end - ov

\* lines 119-125: normalise; a text of at most chunkSize characters is
\* returned whole (or as no chunk at all when it is empty)
Normalize ==
    /\ cpc = "call"
    /\ LET t == Strip(ReplaceCRLF(raw))
       IN  /\ text' = t
           /\ IF Len(t) <= chunkSize
              THEN /\ chunks' = IF t # <<>> THEN <<t>> ELSE <<>>
                   /\ cpc' = "done"
              ELSE /\ chunks' = <<>>
                   /\ cpc' = "loop"
    /\ start' = 0
    /\ UNCHANGED <<chunkSize, overlap, raw, windows, src>>
    /\ UNCHANGED <<storeVars, chatVars>>

\* lines 126-145: one iteration of the while loop
Iterate ==
    /\ cpc = "loop"
    /\ start < Len(text)
    /\ Len(windows) < MaxIter
    /\ LET end == WindowEnd(text, start, chunkSize)
           chunk == Strip(Slice(text, start, end))
       IN  /\ windows' = Append(windows, <<start, end>>)
           /\ IF chunk # <<>>
              THEN /\ chunks' = Append(chunks, chunk)
                   /\ src' = Append(src, Len(windows) + 1)
              ELSE UNCHANGED <<chunks, src>>
           /\ start' = NextStart(end, overlap)
    /\ UNCHANGED <<chunkSize, overlap, raw, text, cpc>>
    /\ UNCHANGED <<storeVars, chatVars>>

\* lines 126, 147: the loop condition fails and chunks is returned
Return ==
    /\ cpc = "loop"
    /\ start >= Len(text)
    /\ cpc' = "done"
    /\ UNCHANGED <<chunkSize, overlap, raw, text, start, chunks, windows, src>>
    /\ UNCHANGED <<storeVars, chatVars>>

----------------------------------------------------------------------------
(* The vector store and the requests against it.                           *)
(*                                                                         *)
(* The index is shared by every instance of the service, and a request     *)
(* reaches it only through index.upsert, index.delete and index.query, so  *)
(* requests interleave at these calls: each call is one step.  A chunk id  *)
(* "{document_id}_chunk_{i}" is the pair <<document_id, i>>, a document id *)
(* "doc_{seconds}_{suffix}" the pair <<seconds, suffix>>.  Of a chunk's    *)
(* metadata the model keeps document_id, chunk_index, total_chunks and     *)
(* is_first_chunk; text, filename and uploaded_at are not read by any      *)
(* operation on the store.                                                 *)

\* line 189: batch_size.  The program upserts 100 vectors at a call; the
\* model upserts 2, so that a document of more chunks than one call holds
\* stays small
BATCH_SIZE == 2

\* line 238: top_k of the listing query.  The program asks for 1000
\* matches; the model asks for 1, so that a store of more documents than
\* the query returns is within reach of NumUploads requests
LIST_TOP_K == 1

\* the upload requests
Uploads == 1..NumUploads

\* the uploaded files: an extension, whether the bytes are well-formed
\* for it (a PDF fitz opens, a DOCX python-docx opens, bytes that decode as
\* UTF-8), whether the extracted text is blank, and the length of
\* chunk_text's result for it (one chunk, or more than one batch holds)
File(ext, wellformed, blank, n) ==
    [ext |-> ext, wellformed |-> wellformed, blank |-> blank, n |-> n]

Files ==
    {File("png", TRUE, FALSE, 1),
     File("pdf", FALSE, FALSE, 1),
     File("txt", FALSE, FALSE, 1),
     File("docx", TRUE, TRUE, 0),
     File("md", TRUE, FALSE, 1),
     File("csv", TRUE, FALSE, BATCH_SIZE + 1),
     File("pdf", TRUE, FALSE, BATCH_SIZE + 1)}

\* the values random.choices(string.ascii_lowercase, k=6) is drawn from
Suffixes == {"aaaaaa", "zzzzzz"}

NoId == <<>>

\* line 155
GenerateDocumentId(seconds, suffix) == <<seconds, suffix>>

\* lines 91-114: what extract_text does with a file of this extension whose
\* bytes are, or are not, well-formed for it: "text" when it returns,
\* "http400" when it raises HTTPException(400), "error" when fitz, docx or
\* bytes.decode raises
ExtractText(ext, wellformed) ==
    IF ext \in {"pdf", "docx", "txt", "md", "csv"}
    THEN IF wellformed THEN "text" ELSE "error"
    ELSE "http400"

\* lines 367-381: the chunk records of document d, by chunk id
ChunkRecords(d, n) ==
    [c \in {d} \X (0..n - 1) |->
        [document_id |-> d, chunk_index |-> c[2], total_chunks |-> n,
         is_first_chunk |-> (c[2] = 0)]]

\* lines 190-199: the batch that starts at chunk i
Batch(recs, d, i, n) ==
    [c \in {d} \X (i..Min(i + BATCH_SIZE, n) - 1) |-> recs[c]]

\* index.upsert: a vector whose id is stored already replaces it
Upsert(st, vectors) ==
    [c \in DOMAIN st \cup DOMAIN vectors |->
        IF c \in DOMAIN vectors THEN vectors[c] ELSE st[c]]

\* StoreDelete that removes the document's first chunk only
StoreDeleteFirstChunk(st, d) ==
    [c \in {x \in DOMAIN st : x # <<d, 0>>} |-> st[c]]

\* line 228: index.delete(filter={"document_id": {"$eq": d}})
StoreDelete(st, d) ==
    [c \in {x \in DOMAIN st : st[x].document_id # d} |-> st[c]]

\* lines 236-241: the match sets the listing query may return: top_k of the
\* chunks that pass the filter (all of them when there are no more)
QueryFirstChunks(st, k) ==
    LET pass == {c \in DOMAIN st : st[c].is_first_chunk}
    IN  {m \in SUBSET pass : Cardinality(m) = Min(k, Cardinality(pass))}

\* lines 243-253: one entry per match
ListDocuments(st, matches) ==
    [c \in matches |-> [id |-> st[c].document_id, chunks |-> st[c].total_chunks]]

NewUpload ==
    [pc |-> "new", status |-> 0, detail |-> "", cause |-> "none",
     id |-> NoId, n |-> 0, next |-> 0, deleted |-> FALSE]

Step(op, status, id, removed, documents) ==
    [op |-> op, status |-> status, id |-> id, removed |-> removed,
     documents |-> documents]

NoStep == Step("none", 0, NoId, 0, <<>>)

\* a request ends with this response
Finish(u, status, detail, cause) ==
    /\ upl' = [upl EXCEPT ![u].pc = "done", ![u].status = status,
                          ![u].detail = detail, ![u].cause = cause]
    /\ lastOp' = NoStep

\* lines 348-381: upload, up to the first call of index.upsert.  The
\* requests are numbered in the order they arrive
UploadBegin(u) ==
    /\ upl[u].pc = "new"
    /\ \A v \in Uploads : v < u => upl[v].pc # "new"
    /\ \E file \in Files, embedded \in BOOLEAN, suffix \in Suffixes :
         LET got == ExtractText(file.ext, file.wellformed)
         IN  IF got = "http400"
             THEN Finish(u, 400, "Unsupported file type", "unsupported")
             ELSE IF got = "error"
             THEN Finish(u, 500, "extraction error", "extract")
             ELSE IF file.blank
             THEN Finish(u, 400, "Could not extract text from file", "blank")
             ELSE IF ~embedded
             THEN Finish(u, 500, "embedding provider error", "embed")
             ELSE /\ upl' = [upl EXCEPT ![u].pc = "store",
                                        ![u].id = GenerateDocumentId(now, suffix),
                                        ![u].n = file.n]
                  /\ lastOp' = NoStep
    /\ UNCHANGED <<store, now>>
    /\ UNCHANGED <<chunkVars, chatVars>>

\* lines 190-200, 386-396: one call of index.upsert by store_chunks, and
\* upload's response when it was the last one or when it raised
StoreBatch(u) ==
    /\ upl[u].pc = "store"
    /\ LET d == upl[u].id
           n == upl[u].n
           i == upl[u].next
       IN  \/ /\ store' = Upsert(store, Batch(ChunkRecords(d, n), d, i, n))
              /\ IF i + BATCH_SIZE < n
                 THEN /\ upl' = [upl EXCEPT ![u].next = i + BATCH_SIZE]
                      /\ lastOp' = NoStep
                 ELSE /\ upl' = [upl EXCEPT ![u].pc = "done", ![u].status = 200,
                                            ![u].detail = "success",
                                            ![u].next = n]
                      /\ lastOp' = NoStep
           \/ /\ Finish(u, 500, "index provider error", "upsert")
              /\ UNCHANGED store
    /\ UNCHANGED now
    /\ UNCHANGED <<chunkVars, chatVars>>

\* lines 409-416: DELETE /api/documents/{document_id}
RemoveDocument(d) ==
    /\ \/ /\ store' = StoreDelete(store, d)
          /\ upl' = [u \in Uploads |->
                        IF upl[u].id = d THEN [upl[u] EXCEPT !.deleted = TRUE]
                        ELSE upl[u]]
          /\ lastOp' = Step("delete", 200, d,
                            Cardinality({c \in DOMAIN store :
                                            store[c].document_id = d}), <<>>)
       \/ /\ lastOp' = NoStep
          /\ UNCHANGED <<store, upl>>
    /\ UNCHANGED now
    /\ UNCHANGED <<chunkVars, chatVars>>

\* lines 399-406: GET /api/documents
GetDocuments ==
    /\ \/ \E m \in QueryFirstChunks(store, LIST_TOP_K) :
             lastOp' = Step("list", 200, NoId, 0, ListDocuments(store, m))
       \/ lastOp' = NoStep
    /\ UNCHANGED <<store, upl, now>>
    /\ UNCHANGED <<chunkVars, chatVars>>

\* a second passes
Tick ==
    /\ now < MaxTime
    /\ now' = now + 1
    /\ lastOp' = NoStep
    /\ UNCHANGED <<store, upl>>
    /\ UNCHANGED <<chunkVars, chatVars>>

\* the document ids a client can have learnt: those a listing would show
\* or a chat source could cite, and those the uploads have returned
KnownIds ==
    {store[c].document_id : c \in DOMAIN store}
        \cup {upl[u].id : u \in {v \in Uploads : upl[v].status = 200}}

StoreIdle ==
    /\ store = <<>>
    /\ upl = [u \in Uploads |-> NewUpload]
    /\ now = 0
    /\ lastOp = NoStep

ChunkIdle ==
    /\ chunkSize = CHUNK_SIZE
    /\ overlap = CHUNK_OVERLAP
    /\ raw = <<>>
    /\ text = <<>>
    /\ start = 0
    /\ chunks = <<>>
    /\ windows = <<>>
    /\ src = <<>>
    /\ cpc = "done"

----------------------------------------------------------------------------
(* chat and generate_answer.                                               *)
(*                                                                         *)
(* A match is [id, score, filename, text], the text being a record of the  *)
(* chunk it is the text of and its length.  A message is [role, content],  *)
(* the content a record of the fixed text it is made of (kind), the        *)
(* context blocks put into it and the history turn it repeats.  The        *)
(* context string is the sequence of its "[Source: ...]" blocks, which     *)
(* "\n\n---\n\n" joins: every block starts with a literal, so the string   *)
(* is empty exactly when there is no block.                                *)

Scores == {5, 6, 7, 8, 9}

\* the i-th match of a ranked list with these scores
Match(i, score) ==
    [id |-> i, score |-> score, filename |-> IF i % 2 = 1 THEN "a.pdf" ELSE "b.txt",
     text |-> [chunk |-> i, len |-> PREVIEW_CHARS - 2 + i]]

\* what the index returns for a query with top_k = TOP_K: at most TOP_K
\* matches, ranked by similarity
RankedLists ==
    UNION {{[i \in 1..n |-> Match(i, sc[i])] :
                sc \in {f \in [1..n -> Scores] :
                            \A i \in 1..n - 1 : f[i] >= f[i + 1]}} :
           n \in 0..TOP_K}

\* request.history: None, or a list of turns
History(given, turns) == [given |-> given, turns |-> turns]

NoHistory == History(FALSE, <<>>)

Content(kind, blocks, turn) == [kind |-> kind, blocks |-> blocks, turn |-> turn]

\* the i-th turn of a history
Turn(i) ==
    [role |-> IF i % 2 = 1 THEN "user" ELSE "assistant",
     content |-> Content("turn", <<>>, i)]

Histories ==
    {NoHistory} \cup {History(TRUE, [i \in 1..n |-> Turn(i)]) : n \in 0..MaxHist}

Msg(role, content) == [role |-> role, content |-> content]

\* lines 48-58
SYSTEM_PROMPT == Content("You are an intelligent assistant for MBA students.", <<>>, 0)

\* line 268
ContextBlock(context) ==
    Content("Here is relevant information from the student's documents", context, 0)

\* line 273
NoDocumentsNotice == Content("No relevant documents were found.", <<>>, 0)

\* request.message
Question == Content("question", <<>>, 0)

\* Relevant with the comparison made strict
RelevantStrict(sim) == SelectSeq(sim, LAMBDA c : c.score > MIN_SCORE)

\* line 315
Relevant(sim) == SelectSeq(sim, LAMBDA c : c.score >= MIN_SCORE)

\* lines 318-324
Context(rel) == [k \in 1..Len(rel) |-> <<rel[k].filename, rel[k].text>>]

\* line 332: text[:200] + "..." when the text is longer
Preview(t) ==
    IF t.len > PREVIEW_CHARS
    THEN [chunk |-> t.chunk, shown |-> PREVIEW_CHARS, ellipsis |-> TRUE]
    ELSE [chunk |-> t.chunk, shown |-> t.len, ellipsis |-> FALSE]

\* lines 330-337
Sources(rel) ==
    [k \in 1..Len(rel) |->
        [text |-> Preview(rel[k].text), score |-> rel[k].score,
         filename |-> rel[k].filename]]

\* LastTurns that takes the turns from the front
FirstTurns(h) == SubSeq(h, 1, Min(HISTORY_TURNS, Len(h)))

\* line 278: history[-6:]
LastTurns(h) == SubSeq(h, Max(1, Len(h) - HISTORY_TURNS + 1), Len(h))

\* lines 263-281: the messages of generate_answer
AnswerMessages(question, context, hist) ==
    <<Msg("system", SYSTEM_PROMPT)>>
    \o (IF context # <<>>
        THEN <<Msg("system", ContextBlock(context))>>
        ELSE <<Msg("system", NoDocumentsNotice)>>)
    \o (IF hist.given /\ hist.turns # <<>>
        THEN [k \in 1..Len(LastTurns(hist.turns)) |->
                 Msg(LastTurns(hist.turns)[k].role, LastTurns(hist.turns)[k].content)]
        ELSE <<>>)
    \o <<Msg("user", question)>>

\* lines 305-342: POST /api/chat; a call of the embedding or chat model
\* that raises ends the request with a 500
Chat ==
    /\ kpc = "call"
    /\ \/ /\ relevant' = Relevant(similar)
          /\ messages' = AnswerMessages(Question, Context(Relevant(similar)), history)
          /\ sources' = Sources(Relevant(similar))
          /\ kpc' = "done"
       \/ /\ kpc' = "failed"
          /\ UNCHANGED <<relevant, messages, sources>>
    /\ UNCHANGED <<similar, history>>
    /\ UNCHANGED <<chunkVars, storeVars>>

ChatIdle ==
    /\ similar = <<>>
    /\ history = NoHistory
    /\ relevant = <<>>
    /\ messages = <<>>
    /\ sources = <<>>
    /\ kpc = "done"

ChatInit ==
    /\ similar \in RankedLists
    /\ history \in Histories
    /\ relevant = <<>>
    /\ messages = <<>>
    /\ sources = <<>>
    /\ kpc = "call"
    /\ ChunkIdle
    /\ StoreIdle

ChatNext == Chat

\* a chat request over every ranked match list and history
SpecChat == ChatInit /\ [][ChatNext]_vars

----------------------------------------------------------------------------
(* The specifications *)

StoreInit == StoreIdle /\ ChunkIdle /\ ChatIdle

StoreNext ==
    \/ \E u \in Uploads : UploadBegin(u)
    \/ \E u \in Uploads : StoreBatch(u)
    \/ \E d \in KnownIds : RemoveDocument(d)
    \/ GetDocuments
    \/ Tick

\* the requests against the store, in every interleaving of their calls
SpecStore == StoreInit /\ [][StoreNext]_vars

\* every raw text of at most MaxLen characters
Texts == UNION {[1..n -> Chars] : n \in 0..MaxLen}

\* the settings of the two parameters: 0 <= overlap < chunkSize
ParamPairs == {p \in (MinChunk..MaxChunk) \X (0..MaxChunk) : p[2] < p[1]}

\* the settings in the ratio the program configures (CHUNK_SIZE to
\* CHUNK_OVERLAP, 5 to 1): a text of more than CHUNK_SIZE characters is
\* beyond enumeration, so the configured pair is stood for by the pairs of
\* ParamPairs in its ratio
ConfiguredPairs == {p \in ParamPairs : p[1] * CHUNK_OVERLAP = p[2] * CHUNK_SIZE}

ChunkInitWith(pairs) ==
    /\ \E p \in pairs : chunkSize = p[1] /\ overlap = p[2]
    /\ raw \in Texts
    /\ text = <<>>
    /\ start = 0
    /\ chunks = <<>>
    /\ windows = <<>>
    /\ src = <<>>
    /\ cpc = "call"
    /\ StoreIdle
    /\ ChatIdle

ChunkNext == Normalize \/ Iterate \/ Return

\* chunk_text under every setting of the parameters
SpecChunkAny == ChunkInitWith(ParamPairs) /\ [][ChunkNext]_vars

\* chunk_text under the configured ratio
SpecChunk == ChunkInitWith(ConfiguredPairs) /\ [][ChunkNext]_vars

----------------------------------------------------------------------------
(* The claims *)

\* the start of the window after window i: that of the next iteration, or
\* the current value of `start` after the last one
StartAfter(i) == IF i < Len(windows) THEN windows[i + 1][1] ELSE start

\* C1: under every setting of the two parameters with 0 <= overlap <
\* chunkSize, `start` strictly increases on every iteration of chunk_text's
\* loop (so the loop ends after finitely many iterations)
C1_StartStrictlyIncreases ==
    \A i \in 1..Len(windows) : StartAfter(i) > windows[i][1]

\* C2: for a text longer than chunkSize the windows cover the normalised
\* text without gaps and in order: the first starts at 0, each next one
\* starts no later than the one before ends and no earlier than it starts,
\* and the last one reaches the end of the text; every chunk is the trimmed
\* content of one window, is non-empty and has at most chunkSize
\* characters, and the chunks are in the order of their windows
C2_WindowsCoverInOrder ==
    /\ windows # <<>> => windows[1][1] = 0
    /\ \A i \in 1..Len(windows) :
          /\ StartAfter(i) <= windows[i][2]
          /\ StartAfter(i) >= windows[i][1]
    /\ (cpc = "done" /\ Len(text) > chunkSize) =>
          /\ windows # <<>>
          /\ windows[Len(windows)][2] >= Len(text)
    /\ Len(text) > chunkSize =>
          /\ Len(src) = Len(chunks)
          /\ \A k \in 1..Len(chunks) :
                /\ src[k] \in 1..Len(windows)
                /\ chunks[k] =
                      Strip(Slice(text, windows[src[k]][1], windows[src[k]][2]))
                /\ chunks[k] # <<>>
                /\ Len(chunks[k]) <= chunkSize
          /\ \A k \in 1..Len(chunks) - 1 : src[k] < src[k + 1]

\* a text longer than chunkSize was chunked to the end in three or more
\* windows, one of them cut short at a paragraph or sentence break
C2_Witness ==
    /\ cpc = "done"
    /\ Len(text) > chunkSize
    /\ Len(windows) >= 3
    /\ Len(chunks) >= 3
    /\ \E i \in 1..Len(windows) : windows[i][2] < windows[i][1] + chunkSize

\* the upload that ended with success and was given document id d
Ingested(u, d) ==
    upl[u].pc = "done" /\ upl[u].status = 200 /\ upl[u].id = d

\* C3: when a DELETE for the id of a successfully uploaded document has
\* succeeded, the store holds no chunk with that document_id, and no
\* listing shows the id
C3_DeleteLeavesNoChunk ==
    (lastOp.op = "delete" /\ \E u \in Uploads : Ingested(u, lastOp.id)) =>
        /\ \A c \in DOMAIN store : store[c].document_id # lastOp.id
        /\ \A m \in QueryFirstChunks(store, LIST_TOP_K) :
              \A c \in m : ListDocuments(store, m)[c].id # lastOp.id

\* a DELETE has removed the chunks, more than one batch of them, of a
\* document whose upload had succeeded
C3_Witness ==
    /\ lastOp.op = "delete"
    /\ lastOp.removed > BATCH_SIZE
    /\ \E u \in Uploads : Ingested(u, lastOp.id) /\ upl[u].n = lastOp.removed

\* uploads u and v, two ingestions, were given the same document id
SameIdGiven(u, v) ==
    u # v /\ upl[u].id # NoId /\ upl[u].id = upl[v].id

\* C10: two distinct ingestions never get the same document_id, so that no
\* upload writes a chunk id another upload wrote
C10_DistinctDocumentIds ==
    \A u, v \in Uploads : ~SameIdGiven(u, v)

\* the uploads that succeeded under document id d and were not deleted
LiveUploads(d) ==
    {u \in Uploads : Ingested(u, d) /\ ~upl[u].deleted}

\* C4: a listing shows every document that was ingested and not deleted
\* exactly once, with the chunk count of its ingestion, and shows no
\* deleted document, however many documents are stored.  Stated for the
\* runs in which the uploads were given different document ids, so that a
\* violation does not rest on two ingestions sharing an id
C4_ListingShowsEveryDocument ==
    (lastOp.op = "list" /\ ~\E u, v \in Uploads : SameIdGiven(u, v)) =>
        LET docs == lastOp.documents
        IN  /\ \A u \in Uploads :
                  u \in LiveUploads(upl[u].id) =>
                      /\ Cardinality({c \in DOMAIN docs :
                                         docs[c].id = upl[u].id}) = 1
                      /\ \A c \in DOMAIN docs :
                            docs[c].id = upl[u].id =>
                                docs[c].chunks \in
                                    {upl[v].n : v \in LiveUploads(upl[u].id)}
            /\ \A c \in DOMAIN docs :
                  \E u \in Uploads : upl[u].id = docs[c].id /\ ~upl[u].deleted

\* the position of the k-th match of `similar` that clears the threshold
KthRetained(k) ==
    LET keep == {i \in 1..Len(similar) : similar[i].score >= MIN_SCORE}
    IN  CHOOSE i \in keep : Cardinality({j \in keep : j <= i}) = k

\* C5: chat retains exactly the matches with score >= MIN_SCORE, in the
\* order the store ranked them, and returns one source per retained match
\* in that order: never more than TOP_K sources, none below the threshold
C5_RetainsExactlyTheRelevant ==
    kpc = "done" =>
        /\ Len(relevant) =
              Cardinality({i \in 1..Len(similar) : similar[i].score >= MIN_SCORE})
        /\ \A k \in 1..Len(relevant) : relevant[k] = similar[KthRetained(k)]
        /\ Len(sources) = Len(relevant)
        /\ Len(sources) <= TOP_K
        /\ \A k \in 1..Len(sources) :
              /\ sources[k].score = relevant[k].score
              /\ sources[k].filename = relevant[k].filename
              /\ sources[k].text.chunk = relevant[k].id
              /\ sources[k].score >= MIN_SCORE

\* a chat kept a match whose score equals the threshold and dropped one
\* below it
C5_Witness ==
    /\ kpc = "done"
    /\ Len(similar) = TOP_K
    /\ Len(relevant) >= 2
    /\ Len(relevant) < Len(similar)
    /\ \E k \in 1..Len(relevant) : relevant[k].score = MIN_SCORE

\* the turns of request.history
TurnsOf(h) == IF h.given THEN h.turns ELSE <<>>

\* C6: the messages handed to the generator are the system instruction,
\* then one system message (the context block when a match cleared the
\* threshold, the notice when none did), then the last min(6, n) of the n
\* history turns oldest first, then the user's question
C6_MessageShape ==
    kpc = "done" =>
        LET n == Len(TurnsOf(history))
            k == Min(HISTORY_TURNS, n)
        IN  /\ Len(messages) = 2 + k + 1
            /\ messages[1] = Msg("system", SYSTEM_PROMPT)
            /\ messages[2].role = "system"
            /\ (\E i \in 1..Len(similar) : similar[i].score >= MIN_SCORE) =>
                  /\ messages[2].content # NoDocumentsNotice
                  /\ messages[2].content = ContextBlock(Context(relevant))
            /\ ~(\E i \in 1..Len(similar) : similar[i].score >= MIN_SCORE) =>
                  messages[2].content = NoDocumentsNotice
            /\ \A j \in 1..k :
                  messages[2 + j] = Msg(TurnsOf(history)[n - k + j].role,
                                        TurnsOf(history)[n - k + j].content)
            /\ messages[Len(messages)] = Msg("user", Question)

\* a chat with more than six turns of history and a match that cleared the
\* threshold
C6_Witness ==
    /\ kpc = "done"
    /\ Len(TurnsOf(history)) > HISTORY_TURNS
    /\ relevant # <<>>
    /\ Len(messages) = 2 + HISTORY_TURNS + 1

\* C7: an upload whose text extraction failed on malformed or undecodable
\* bytes is rejected with a 4xx status, with nothing written to the store
C7_ExtractionFailureIsClientError ==
    \A u \in Uploads :
        upl[u].cause = "extract" =>
            /\ upl[u].status \in 400..499
            /\ upl[u].id = NoId

\* the upload failed at a batch after the first, with chunks persisted
PartialFailure(u) ==
    upl[u].pc = "done" /\ upl[u].cause = "upsert" /\ upl[u].next > 0

\* the upload failed with no chunk persisted
CleanFailure(u) ==
    /\ upl[u].pc = "done"
    /\ upl[u].status # 200
    /\ upl[u].next = 0

\* C8: a partial ingestion and a clean failure never get the same error
\* result.  Stated for two uploads that were not given the same document
\* id, so that a violation does not rest on two ingestions sharing an id
C8_PartialFailureIsDistinct ==
    \A u, v \in Uploads :
        (PartialFailure(u) /\ CleanFailure(v) /\ ~SameIdGiven(u, v)) =>
            <<upl[u].status, upl[u].detail>> # <<upl[v].status, upl[v].detail>>

\* C9: every document_id with a stored chunk has exactly one stored chunk
\* flagged is_first_chunk, and it is the chunk with chunk_index 0
C9_ExactlyOneFirstChunk ==
    \A d \in {store[c].document_id : c \in DOMAIN store} :
        LET firsts == {c \in DOMAIN store :
                          store[c].document_id = d /\ store[c].is_first_chunk}
        IN  /\ Cardinality(firsts) = 1
            /\ \A c \in firsts : store[c].chunk_index = 0

====
